---- MODULE Spec2Model ----
(***************************************************************************)
(* Unit of Work / Mapper / Proxy core of main.py.                          *)
(*                                                                         *)
(* The Python objects live on a heap (objects: address -> record), the     *)
(* dictionaries are insertion-ordered sequences of key/value entries, the  *)
(* store is the pair of tables as seen by the open connection (tx) and as  *)
(* last committed (db).  Every method is a function from machine state to  *)
(* machine state; log records the calls made by the last public operation, *)
(* ret its return value and err the exception that ended it.               *)
(***************************************************************************)
EXTENDS Integers, Sequences, FiniteSets, TLC

VARIABLES objects, new, dirty, mappers, tx, db, log, ret, err

vars == <<objects, new, dirty, mappers, tx, db, log, ret, err>>

\* ---------------------------------------------------------------- bounds
\* operations that grow the state: aggregates loaded plus entities registered
\* in the unit of work (new and dirty together)
MaxOps == 4
\* mapper instances the wiring may construct per kind, for the registry alone
MaxMappers == 4

\* ---------------------------------------------------------------- inputs
Kinds == {"MessageMapper", "UserMapper"}
UserIds == {1, 3, 4}
MessageIds == {1, 2, 4}
Bodies == {"new message body 1", "new message body 2"}
Names == {"new username", "other username"}
\* the mapper instances the wiring may construct: K(connection), numbered per kind
MapperInstances == {[cls |-> k, n |-> 1] : k \in Kinds}
RegistryInstances == {[cls |-> k, n |-> i] : k \in Kinds, i \in 1..MaxMappers}

\* ------------------------------------------------------------ seeded store
users_seed ==
    << [id |-> 1, name |-> "bob"],
       [id |-> 2, name |-> "sam"],
       [id |-> 3, name |-> "von"] >>

messages_seed ==
    << [id |-> 1, body |-> "body 1", user_id |-> 1],
       [id |-> 2, body |-> "body 2", user_id |-> 1],
       [id |-> 3, body |-> "body 3", user_id |-> 1],
       [id |-> 4, body |-> "body 4", user_id |-> 2] >>

\* ------------------------------------------------------- Python dictionaries
\* dict.get(key) is not None
DictHas(d, k) == \E i \in 1..Len(d) : d[i].key = k

DictIndex(d, k) == CHOOSE i \in 1..Len(d) : d[i].key = k

\* d[key]
DictGet(d, k) == d[DictIndex(d, k)].val

DictKeys(d) == [i \in 1..Len(d) |-> d[i].key]

\* d[key] = value : an existing key keeps its position
DictSet(d, k, v) ==
    IF DictHas(d, k)
    THEN [d EXCEPT ![DictIndex(d, k)].val = v]
    ELSE Append(d, [key |-> k, val |-> v])

\* a dictionary that puts a new key in front of the others
SetDefaultAppend_new_key_first(d, k, e) ==
    IF DictHas(d, k)
    THEN [d EXCEPT ![DictIndex(d, k)].val = Append(@, e)]
    ELSE <<[key |-> k, val |-> <<e>>]>> \o d

\* d.setdefault(key, []).append(entity)
SetDefaultAppend(d, k, e) ==
    IF DictHas(d, k)
    THEN [d EXCEPT ![DictIndex(d, k)].val = Append(@, e)]
    ELSE Append(d, [key |-> k, val |-> <<e>>])

\* ------------------------------------------------------------ machine state
St ==
    [objects |-> objects, new |-> new, dirty |-> dirty, mappers |-> mappers,
     tx |-> tx, db |-> db, log |-> log, ret |-> ret, err |-> err]

RetNone == [kind |-> "None", int |-> 0, str |-> ""]
RetInt(n) == [kind |-> "int", int |-> n, str |-> ""]
RetStr(x) == [kind |-> "str", int |-> 0, str |-> x]
RetRef(a) == [kind |-> "ref", int |-> a, str |-> ""]
RetMapper(m) == [kind |-> "mapper", int |-> m.n, str |-> m.cls]

\* one entry of the call trace
Call(op, kind, obj, id, val, data) ==
    [op |-> op, kind |-> kind, obj |-> obj, id |-> id, val |-> val, data |-> data]

Trace(s, c) == [s EXCEPT !.log = Append(@, c)]

Return(s, r) == [s EXCEPT !.ret = r]

Raise(s, e) == [s EXCEPT !.err = e, !.ret = RetNone]

\* a public operation starts with an empty trace and no pending exception
Enter(s) == [s EXCEPT !.log = <<>>, !.ret = RetNone, !.err = "none"]

Cls(s, a) == s.objects[a].cls


\* ------------------------------------------------------------------ Message
\* Message.__init__
Message(message_id, body) ==
    [cls |-> "Message", message_id |-> message_id, body |-> body]

Message_message_id(s, self) ==
    Return(Trace(s, Call("Message.message_id", "", self, 0, "", <<>>)),
           RetInt(s.objects[self].message_id))

Message_body(s, self) ==
    Return(Trace(s, Call("Message.body", "", self, 0, "", <<>>)),
           RetStr(s.objects[self].body))

Message_edit(s, self, body) ==
    LET s1 == Trace(s, Call("Message.edit", "", self, 0, body, <<>>))
    IN  Return([s1 EXCEPT !.objects[self].body = body], RetNone)

\* ------------------------------------------------------------------ Registry
\* None, as returned by dict.get for an absent key
None == [cls |-> "NoneType", n |-> 0]

\* bool(o): None is false, an instance of a mapper class is true
Truthy(o) == o.cls # "NoneType"

\* a registry that keeps the first mapper registered for a kind
Registry_register_mapper_keeps_first(s, mapper_type, mapper) ==
    LET s1 == Trace(s, Call("Registry.register_mapper", mapper_type, 0, mapper.n, mapper.cls, <<>>))
    IN  Return(IF DictHas(s1.mappers, mapper_type)
               THEN s1
               ELSE [s1 EXCEPT !.mappers = DictSet(@, mapper_type, mapper)], RetNone)

Registry_register_mapper(s, mapper_type, mapper) ==
    LET s1 == Trace(s, Call("Registry.register_mapper", mapper_type, 0, mapper.n, mapper.cls, <<>>))
    IN  Return([s1 EXCEPT !.mappers = DictSet(@, mapper_type, mapper)], RetNone)

Registry_get(s, mapper_type) ==
    LET s1 == Trace(s, Call("Registry.get", mapper_type, 0, 0, "", <<>>))
        mapper == IF DictHas(s1.mappers, mapper_type)
                  THEN DictGet(s1.mappers, mapper_type)
                  ELSE None
    IN  IF ~Truthy(mapper)
        THEN Raise(s1, "Exception: Mapper not found")
        ELSE Return(s1, RetMapper(mapper))

\* ---------------------------------------------------------------- Connection
\* one parameter set of an UPDATE <table> SET <column> = :value WHERE id = :id
\* an UPDATE without its WHERE clause: every row takes the value
UpdateRows_no_where(rows, column, p) ==
    [i \in 1..Len(rows) |-> [rows[i] EXCEPT ![column] = p.value]]

UpdateRows(rows, column, p) ==
    [i \in 1..Len(rows) |->
        IF rows[i].id = p.id THEN [rows[i] EXCEPT ![column] = p.value] ELSE rows[i]]

RECURSIVE ExecuteMany_reversed(_, _, _, _)
\* a batch that applies its parameter sets from the last to the first
ExecuteMany_reversed(rows, column, params, i) ==
    IF i > Len(params)
    THEN rows
    ELSE UpdateRows(ExecuteMany_reversed(rows, column, params, i + 1), column, params[i])

\* a batch that applies only its first parameter set
ExecuteMany_first_only(rows, column, params, i) ==
    IF i > Len(params) THEN rows ELSE UpdateRows(rows, column, params[i])

RECURSIVE ExecuteMany(_, _, _, _)
\* the statement is executed once per parameter set, in list order
ExecuteMany(rows, column, params, i) ==
    IF i > Len(params)
    THEN rows
    ELSE ExecuteMany(UpdateRows(rows, column, params[i]), column, params, i + 1)

Connection_execute(s, stmt, params) ==
    LET s1 == Trace(s, Call("Connection.execute", stmt.table, 0, Len(params), stmt.column, <<>>))
    IN  [s1 EXCEPT !.tx[stmt.table] = ExecuteMany(@, stmt.column, params, 1)]

\* connection.execute(stmt) of a SELECT: the call reads, the tables stay
Connection_execute_select(s, stmt) ==
    Trace(s, Call("Connection.execute", stmt.table, 0, 0, "", <<>>))

\* UPDATE <table> SET <columns of values> WHERE id = :id, without parameter sets
UpdateWhere(rows, id, values) ==
    [i \in 1..Len(rows) |->
        IF rows[i].id = id
        THEN [c \in DOMAIN rows[i] |->
                 IF c \in DOMAIN values THEN values[c] ELSE rows[i][c]]
        ELSE rows[i]]

\* connection.execute(stmt) of such an UPDATE
Connection_execute_update(s, stmt) ==
    LET s1 == Trace(s, Call("Connection.execute", stmt.table, 0, 0, stmt.column, <<>>))
    IN  [s1 EXCEPT !.tx[stmt.table] = UpdateWhere(@, stmt.id, stmt.values)]

Connection_commit(s) ==
    [Trace(s, Call("Connection.commit", "", 0, 0, "", <<>>)) EXCEPT !.db = s.tx]

\* the joined select of UserRepository.with_id: one row per message of the user
JoinRows(store, user_id) ==
    LET Owned(m) == m.user_id = user_id
        ms == SelectSeq(store.messages, Owned)
        Is(u) == u.id = user_id
        us == SelectSeq(store.users, Is)
    IN  IF us = <<>>
        THEN <<>>
        ELSE [i \in 1..Len(ms) |->
                [user_id |-> us[1].id, user_name |-> us[1].name,
                 message_id |-> ms[i].id, message_body |-> ms[i].body]]

\* ---------------------------------------------------------------- UnitOfWork
UnitOfWork_register_new(s, mapper, entity) ==
    LET s1 == Trace(s, Call("UnitOfWork.register_new", mapper, entity, 0, "", <<>>))
    IN  Return([s1 EXCEPT !.new = SetDefaultAppend(@, mapper, entity)], RetNone)

\* a registration that skips an entity the list already holds
UnitOfWork_register_dirty_dedup(s, mapper, entity) ==
    LET s1 == Trace(s, Call("UnitOfWork.register_dirty", mapper, entity, 0, "", <<>>))
        held == DictHas(s.dirty, mapper) /\
                \E j \in 1..Len(DictGet(s.dirty, mapper)) : DictGet(s.dirty, mapper)[j] = entity
    IN  Return(IF held THEN s1 ELSE [s1 EXCEPT !.dirty = SetDefaultAppend(@, mapper, entity)],
               RetNone)

UnitOfWork_register_dirty(s, mapper, entity) ==
    LET s1 == Trace(s, Call("UnitOfWork.register_dirty", mapper, entity, 0, "", <<>>))
    IN  Return([s1 EXCEPT !.dirty = SetDefaultAppend(@, mapper, entity)], RetNone)

\* ---------------------------------------------------------------- MessageProxy
MessageProxy(message) ==
    [cls |-> "MessageProxy", message |-> message]

MessageProxy_message_id(s, self) ==
    Message_message_id(
        Trace(s, Call("MessageProxy.message_id", "", self, 0, "", <<>>)),
        s.objects[self].message)

MessageProxy_body(s, self) ==
    Message_body(
        Trace(s, Call("MessageProxy.body", "", self, 0, "", <<>>)),
        s.objects[self].message)

\* a proxy that mutates first and registers afterwards
MessageProxy_edit_then_register(s, self, body) ==
    LET s1 == Trace(s, Call("MessageProxy.edit", "", self, 0, body, <<>>))
        s2 == Message_edit(s1, s1.objects[self].message, body)
    IN  UnitOfWork_register_dirty(s2, "MessageMapper", s2.objects[self].message)

MessageProxy_edit(s, self, body) ==
    LET s1 == Trace(s, Call("MessageProxy.edit", "", self, 0, body, <<>>))
        s2 == UnitOfWork_register_dirty(s1, "MessageMapper", s1.objects[self].message)
    IN  Message_edit(s2, s2.objects[self].message, body)

\* a message list whose elements are mutated behind their proxies
message_edit_raw(s, message, body) ==
    IF Cls(s, message) = "MessageProxy"
    THEN Message_edit(s, s.objects[message].message, body)
    ELSE Message_edit(s, message, body)

\* attribute lookup on an element of a message list: the object's own class decides
message_message_id(s, message) ==
    IF Cls(s, message) = "MessageProxy"
    THEN MessageProxy_message_id(s, message)
    ELSE Message_message_id(s, message)

message_body(s, message) ==
    IF Cls(s, message) = "MessageProxy"
    THEN MessageProxy_body(s, message)
    ELSE Message_body(s, message)

message_edit(s, message, body) ==
    IF Cls(s, message) = "MessageProxy"
    THEN MessageProxy_edit(s, message, body)
    ELSE Message_edit(s, message, body)

\* --------------------------------------------------------------------- User
User(user_id, name, messages) ==
    [cls |-> "User", user_id |-> user_id, name |-> name, messages |-> messages]

User_user_id(s, self) ==
    Return(Trace(s, Call("User.user_id", "", self, 0, "", <<>>)),
           RetInt(s.objects[self].user_id))

User_name(s, self) ==
    Return(Trace(s, Call("User.name", "", self, 0, "", <<>>)),
           RetStr(s.objects[self].name))

User_rename(s, self, new_name) ==
    LET s1 == Trace(s, Call("User.rename", "", self, 0, new_name, <<>>))
    IN  Return([s1 EXCEPT !.objects[self].name = new_name], RetNone)

RECURSIVE User_edit_message_loop_edits_all(_, _, _, _, _)
\* a scan that edits every message of the list, whatever its id
User_edit_message_loop_edits_all(s, self, i, message_id, body) ==
    IF i > Len(s.objects[self].messages)
    THEN s
    ELSE LET message == s.objects[self].messages[i]
             s1 == message_message_id(s, message)
         IN  User_edit_message_loop_edits_all(message_edit(s1, message, body),
                                              self, i + 1, message_id, body)

RECURSIVE User_edit_message_loop(_, _, _, _, _)
User_edit_message_loop(s, self, i, message_id, body) ==
    IF i > Len(s.objects[self].messages)
    THEN s
    ELSE LET message == s.objects[self].messages[i]
             s1 == message_message_id(s, message)
             s2 == IF s1.ret = RetInt(message_id)
                   THEN message_edit(s1, message, body)
                   ELSE s1
         IN  User_edit_message_loop(s2, self, i + 1, message_id, body)

User_edit_message(s, self, message_id, body) ==
    LET s1 == Trace(s, Call("User.edit_message", "", self, message_id, body, <<>>))
    IN  Return(User_edit_message_loop(s1, self, 1, message_id, body), RetNone)

\* ----------------------------------------------------------------- UserProxy
UserProxy(user) ==
    [cls |-> "UserProxy", user |-> user]

UserProxy_user_id(s, self) ==
    User_user_id(
        Trace(s, Call("UserProxy.user_id", "", self, 0, "", <<>>)),
        s.objects[self].user)

UserProxy_name(s, self) ==
    User_name(
        Trace(s, Call("UserProxy.name", "", self, 0, "", <<>>)),
        s.objects[self].user)

\* a proxy that renames its user without registering it
UserProxy_rename_unregistered(s, self, new_name) ==
    LET s1 == Trace(s, Call("UserProxy.rename", "", self, 0, new_name, <<>>))
    IN  User_rename(s1, s1.objects[self].user, new_name)

UserProxy_rename(s, self, new_name) ==
    LET s1 == Trace(s, Call("UserProxy.rename", "", self, 0, new_name, <<>>))
        s2 == UnitOfWork_register_dirty(s1, "UserMapper", s1.objects[self].user)
    IN  User_rename(s2, s2.objects[self].user, new_name)

\* a proxy that registers its user dirty before it delegates edit_message
UserProxy_edit_message_registers_user(s, self, message_id, body) ==
    LET s1 == Trace(s, Call("UserProxy.edit_message", "", self, message_id, body, <<>>))
        s2 == UnitOfWork_register_dirty(s1, "UserMapper", s1.objects[self].user)
    IN  User_edit_message(s2, s2.objects[self].user, message_id, body)

UserProxy_edit_message(s, self, message_id, body) ==
    User_edit_message(
        Trace(s, Call("UserProxy.edit_message", "", self, message_id, body, <<>>)),
        s.objects[self].user, message_id, body)

\* ------------------------------------------------------------------ mappers
user_name(s, user) ==
    IF Cls(s, user) = "UserProxy" THEN UserProxy_name(s, user) ELSE User_name(s, user)

user_user_id(s, user) ==
    IF Cls(s, user) = "UserProxy" THEN UserProxy_user_id(s, user) ELSE User_user_id(s, user)

RECURSIVE UserMapper_params(_, _, _, _)
\* the loop that builds params: one parameter set per list element
UserMapper_params(s, users, i, params) ==
    IF i > Len(users)
    THEN [s |-> s, params |-> params]
    ELSE LET s1 == user_name(s, users[i])
             s2 == user_user_id(s1, users[i])
         IN  UserMapper_params(s2, users, i + 1,
                 Append(params, [value |-> s1.ret.str, id |-> s2.ret.int]))

UserMapper_update_all(s, self, users) ==
    LET s1 == Trace(s, Call("UserMapper.update_all", "UserMapper", 0, self.n, "", users))
        b == UserMapper_params(s1, users, 1, <<>>)
    IN  Return(Connection_execute(b.s, [table |-> "users", column |-> "name"], b.params),
               RetNone)

RECURSIVE MessageMapper_params(_, _, _, _)
MessageMapper_params(s, messages, i, params) ==
    IF i > Len(messages)
    THEN [s |-> s, params |-> params]
    ELSE LET s1 == message_body(s, messages[i])
             s2 == message_message_id(s1, messages[i])
         IN  MessageMapper_params(s2, messages, i + 1,
                 Append(params, [value |-> s1.ret.str, id |-> s2.ret.int]))

MessageMapper_update_all(s, self, messages) ==
    LET s1 == Trace(s, Call("MessageMapper.update_all", "MessageMapper", 0, self.n, "", messages))
        b == MessageMapper_params(s1, messages, 1, <<>>)
    IN  Return(Connection_execute(b.s, [table |-> "messages", column |-> "body"], b.params),
               RetNone)

\* MessageMapper.update: the statement reads message_id for its WHERE clause,
\* then message_id and body for its values, and is executed at once
MessageMapper_update(s, self, message) ==
    LET s1 == Trace(s, Call("MessageMapper.update", "MessageMapper", 0, self.n, "", <<message>>))
        s2 == message_message_id(s1, message)
        s3 == message_message_id(s2, message)
        s4 == message_body(s3, message)
    IN  Return(Connection_execute_update(s4,
                   [table |-> "messages", column |-> "id, body", id |-> s2.ret.int,
                    values |-> [id |-> s3.ret.int, body |-> s4.ret.str]]),
               RetNone)

\* mapper.update_all(data): the mapper instance's class decides
mapper_update_all(s, mapper, data) ==
    IF mapper.cls = "UserMapper"
    THEN UserMapper_update_all(s, mapper, data)
    ELSE MessageMapper_update_all(s, mapper, data)

\* ----------------------------------------------------------- UnitOfWork.commit
\* a loop that leaves after its first iteration
UnitOfWork_commit_loop_first_only(s, i) ==
    IF i > Len(s.dirty)
    THEN s
    ELSE LET s1 == Registry_get(s, s.dirty[i].key)
         IN  IF s1.err # "none"
             THEN s1
             ELSE mapper_update_all(s1, [cls |-> s1.ret.str, n |-> s1.ret.int],
                                    s.dirty[i].val)

RECURSIVE UnitOfWork_commit_loop(_, _)
\* for mapper_type, data in self._dirty.items(): an exception leaves the loop
UnitOfWork_commit_loop(s, i) ==
    IF i > Len(s.dirty)
    THEN s
    ELSE LET s1 == Registry_get(s, s.dirty[i].key)
         IN  IF s1.err # "none"
             THEN s1
             ELSE UnitOfWork_commit_loop(
                      mapper_update_all(s1, [cls |-> s1.ret.str, n |-> s1.ret.int],
                                        s.dirty[i].val), i + 1)

\* a commit() that commits the transaction before it flushes
UnitOfWork_commit_commits_first(s) ==
    LET s1 == Connection_commit(Trace(s, Call("UnitOfWork.commit", "", 0, 0, "", <<>>)))
        s2 == UnitOfWork_commit_loop(s1, 1)
    IN  IF s2.err # "none" THEN s2 ELSE Return(s2, RetNone)

\* a commit() that commits the transaction whether or not the flush raised
UnitOfWork_commit_always_commits(s) ==
    LET s1 == UnitOfWork_commit_loop(
                  Trace(s, Call("UnitOfWork.commit", "", 0, 0, "", <<>>)), 1)
    IN  IF s1.err # "none"
        THEN [Connection_commit(s1) EXCEPT !.ret = RetNone]
        ELSE Return(Connection_commit(s1), RetNone)

\* a commit() that empties the new and dirty maps once it has committed
UnitOfWork_commit_clears(s) ==
    LET s1 == UnitOfWork_commit_loop(
                  Trace(s, Call("UnitOfWork.commit", "", 0, 0, "", <<>>)), 1)
    IN  IF s1.err # "none"
        THEN s1
        ELSE Return([Connection_commit(s1) EXCEPT !.new = <<>>, !.dirty = <<>>], RetNone)

UnitOfWork_commit(s) ==
    LET s1 == UnitOfWork_commit_loop(
                  Trace(s, Call("UnitOfWork.commit", "", 0, 0, "", <<>>)), 1)
    IN  IF s1.err # "none" THEN s1 ELSE Return(Connection_commit(s1), RetNone)

\* ------------------------------------------------------------ UserRepository
RECURSIVE UserRepository_load_rows_prepend(_, _, _, _)
\* a loop that puts each new proxy at the front of the list
UserRepository_load_rows_prepend(s, result, i, proxy_messages) ==
    IF i > Len(result)
    THEN [s |-> s, proxy_messages |-> proxy_messages]
    ELSE LET message == Len(s.objects) + 1
             message_proxy == Len(s.objects) + 2
             s1 == [s EXCEPT !.objects =
                       @ \o << Message(result[i].message_id, result[i].message_body),
                               MessageProxy(message) >>]
         IN  UserRepository_load_rows_prepend(s1, result, i + 1,
                 <<message_proxy>> \o proxy_messages)

RECURSIVE UserRepository_load_rows(_, _, _, _)
\* for row in result: a Message and its MessageProxy per row
UserRepository_load_rows(s, result, i, proxy_messages) ==
    IF i > Len(result)
    THEN [s |-> s, proxy_messages |-> proxy_messages]
    ELSE LET message == Len(s.objects) + 1
             message_proxy == Len(s.objects) + 2
             s1 == [s EXCEPT !.objects =
                       @ \o << Message(result[i].message_id, result[i].message_body),
                               MessageProxy(message) >>]
         IN  UserRepository_load_rows(s1, result, i + 1,
                 Append(proxy_messages, message_proxy))

\* a load that hands out the aggregate already loaded for the user, if any
UserRepository_load_identity_map(s, result) ==
    LET b == UserRepository_load_rows(s, result, 1, <<>>)
        known == IF Len(result) = 0 THEN {}
                 ELSE {a \in 1..Len(s.objects) :
                          /\ s.objects[a].cls = "UserProxy"
                          /\ s.objects[s.objects[a].user].user_id = result[1].user_id}
    IN  IF Len(result) = 0
        THEN Raise(b.s, "UnboundLocalError")
        ELSE IF known # {}
        THEN Return(s, RetRef(CHOOSE a \in known : TRUE))
        ELSE LET row == result[Len(result)]
                 user == Len(b.s.objects) + 1
                 user_proxy == Len(b.s.objects) + 2
             IN  Return([b.s EXCEPT !.objects =
                            @ \o << User(row.user_id, row.user_name, b.proxy_messages),
                                    UserProxy(user) >>],
                        RetRef(user_proxy))

UserRepository_load(s, result) ==
    LET b == UserRepository_load_rows(s, result, 1, <<>>)
    IN  IF Len(result) = 0
        THEN Raise(b.s, "UnboundLocalError")
        ELSE LET row == result[Len(result)]
                 user == Len(b.s.objects) + 1
                 user_proxy == Len(b.s.objects) + 2
             IN  Return([b.s EXCEPT !.objects =
                            @ \o << User(row.user_id, row.user_name, b.proxy_messages),
                                    UserProxy(user) >>],
                        RetRef(user_proxy))

UserRepository_with_id(s, user_id) ==
    LET s1 == Trace(s, Call("UserRepository.with_id", "", 0, user_id, "", <<>>))
        s2 == Connection_execute_select(s1, [table |-> "users join messages"])
    IN  UserRepository_load(s2, JoinRows(s2.tx, user_id))

\* ------------------------------------------------------------------- actions
Apply(s) ==
    /\ objects' = s.objects
    /\ new' = s.new
    /\ dirty' = s.dirty
    /\ mappers' = s.mappers
    /\ tx' = s.tx
    /\ db' = s.db
    /\ log' = s.log
    /\ ret' = s.ret
    /\ err' = s.err

OfClass(c) == {a \in 1..Len(objects) : objects[a].cls = c}

RECURSIVE SumLen(_, _)
SumLen(d, i) == IF i > Len(d) THEN 0 ELSE Len(d[i].val) + SumLen(d, i + 1)

\* entities registered so far
Registered == SumLen(new, 1) + SumLen(dirty, 1)

\* aggregates loaded so far
Loaded == Cardinality(OfClass("UserProxy"))

CanGrow == Loaded + Registered < MaxOps

Init ==
    /\ objects = <<>>
    /\ new = <<>>
    /\ dirty = <<>>
    /\ mappers = <<>>
    /\ tx = [users |-> users_seed, messages |-> messages_seed]
    /\ db = [users |-> users_seed, messages |-> messages_seed]
    /\ log = <<>>
    /\ ret = RetNone
    /\ err = "none"

\* registry.register_mapper(K, K(connection))
RegisterMapper(mapper) ==
    Apply(Registry_register_mapper(Enter(St), mapper.cls, mapper))

\* registry.get(K)
RegistryGet(mapper_type) ==
    Apply(Registry_get(Enter(St), mapper_type))

\* user_repository.with_id(user_id)
WithId(user_id) ==
    /\ CanGrow
    /\ Apply(UserRepository_with_id(Enter(St), user_id))

\* user.rename(new_name) on a loaded aggregate
Rename(user, new_name) ==
    /\ CanGrow
    /\ Apply(UserProxy_rename(Enter(St), user, new_name))

\* user.edit_message(message_id, body) on a loaded aggregate
EditMessage(user, message_id, body) ==
    /\ CanGrow
    /\ Apply(UserProxy_edit_message(Enter(St), user, message_id, body))

\* unit_of_work.register_new(mapper=K, entity=e)
RegisterNew(kind, entity) ==
    /\ CanGrow
    /\ Apply(UnitOfWork_register_new(Enter(St), kind, entity))

\* registry.get(MessageMapper).update(message)
MessageMapperUpdate(message) ==
    LET s1 == Registry_get(Enter(St), "MessageMapper")
    IN  Apply(IF s1.err # "none"
              THEN s1
              ELSE MessageMapper_update(s1, [cls |-> s1.ret.str, n |-> s1.ret.int], message))

\* unit_of_work.commit()
Commit ==
    Apply(UnitOfWork_commit(Enter(St)))

\* user.user_id, user.name
UserAccessor(user, attr) ==
    Apply(IF attr = "user_id"
          THEN UserProxy_user_id(Enter(St), user)
          ELSE UserProxy_name(Enter(St), user))

\* message.message_id, message.body
MessageAccessor(message, attr) ==
    Apply(IF attr = "message_id"
          THEN MessageProxy_message_id(Enter(St), message)
          ELSE MessageProxy_body(Enter(St), message))

\* the wiring, the repository, the proxies of a loaded aggregate and commit
Next ==
    \/ \E mapper \in MapperInstances : RegisterMapper(mapper)
    \/ \E user_id \in UserIds : WithId(user_id)
    \/ \E user \in OfClass("UserProxy"), new_name \in Names : Rename(user, new_name)
    \/ \E user \in OfClass("UserProxy"), message_id \in MessageIds, body \in Bodies :
          EditMessage(user, message_id, body)
    \/ Commit

Spec == Init /\ [][Next]_vars

\* the proxies alone: mutators and read-only accessors of a loaded aggregate
NextProxy ==
    \/ \E user_id \in UserIds : WithId(user_id)
    \/ \E user \in OfClass("UserProxy"), new_name \in Names : Rename(user, new_name)
    \/ \E user \in OfClass("UserProxy"), message_id \in MessageIds, body \in Bodies :
          EditMessage(user, message_id, body)
    \/ \E user \in OfClass("UserProxy"), attr \in {"user_id", "name"} :
          UserAccessor(user, attr)
    \/ \E message \in OfClass("MessageProxy"), attr \in {"message_id", "body"} :
          MessageAccessor(message, attr)

SpecProxy == Init /\ [][NextProxy]_vars

\* the unit of work with direct register_new calls, on the aggregate of user 2
\* and the failing load of user 3
NextNew ==
    \/ \E mapper \in MapperInstances : RegisterMapper(mapper)
    \/ \E user_id \in {2, 3} : WithId(user_id)
    \/ \E user \in OfClass("UserProxy"), new_name \in Names : Rename(user, new_name)
    \/ \E user \in OfClass("UserProxy"), message_id \in MessageIds, body \in Bodies :
          EditMessage(user, message_id, body)
    \/ \E message \in OfClass("Message") : RegisterNew("MessageMapper", message)
    \/ \E user \in OfClass("User") : RegisterNew("UserMapper", user)
    \/ Commit

SpecNew == Init /\ [][NextNew]_vars

\* the registry alone: registrations of several instances per kind, and lookups
NextRegistry ==
    \/ \E mapper \in RegistryInstances : RegisterMapper(mapper)
    \/ \E mapper_type \in Kinds : RegistryGet(mapper_type)

SpecRegistry == Init /\ [][NextRegistry]_vars

\* the message mapper used directly: a single-row update of a loaded message,
\* next to the unit of work
NextMapper ==
    \/ \E mapper \in MapperInstances : RegisterMapper(mapper)
    \/ \E user_id \in {1, 2} : WithId(user_id)
    \/ \E user \in OfClass("UserProxy"), message_id \in MessageIds, body \in Bodies :
          EditMessage(user, message_id, body)
    \/ \E message \in OfClass("Message") \cup OfClass("MessageProxy") :
          MessageMapperUpdate(message)
    \/ Commit

SpecMapper == Init /\ [][NextMapper]_vars

\* ============================================================== properties
Row(rows, id) == rows[CHOOSE i \in 1..Len(rows) : rows[i].id = id]

\* the first call of the trace is the public operation that ran last
LastOp == IF log = <<>> THEN "" ELSE log[1].op

\* the last operation was a commit() that returned
Committed == LastOp = "UnitOfWork.commit" /\ err = "none"

\* indices of the trace entries of one method
Calls(l, op) == {i \in 1..Len(l) : l[i].op = op}

\* ---------------------------------------------------------------------- C1
\* The aggregate of user 1 is the only one loaded, message 1 was edited to
\* 'new message body 1', then message 2 to 'new message body 2', the user was
\* renamed to 'new username', and commit() has returned.
DriverDone ==
    /\ Committed
    /\ Len(objects) = 8
    /\ objects[7].cls = "User" /\ objects[7].user_id = 1
    /\ dirty = << [key |-> "MessageMapper", val |-> <<1, 3>>],
                  [key |-> "UserMapper", val |-> <<7>>] >>
    /\ objects[1].message_id = 1 /\ objects[1].body = "new message body 1"
    /\ objects[3].message_id = 2 /\ objects[3].body = "new message body 2"
    /\ objects[7].name = "new username"

\* C1: after load of user 1, edit_message(1, 'new message body 1'),
\* edit_message(2, 'new message body 2'), rename('new username') and commit(),
\* the store (as re-queried on the connection, and as committed) holds the two
\* new bodies for messages 1 and 2 and the new name for user 1.
C1_DriverScenario ==
    DriverDone =>
        /\ Row(tx.messages, 1).body = "new message body 1"
        /\ Row(tx.messages, 2).body = "new message body 2"
        /\ Row(tx.users, 1).name = "new username"
        /\ db = tx

C1_Witness == DriverDone

\* ---------------------------------------------------------------------- C2
\* the table and column a mapper-kind writes, and the entity fields it reads
TableOf(kind) == IF kind = "UserMapper" THEN "users" ELSE "messages"

ColumnOf(kind) == IF kind = "UserMapper" THEN "name" ELSE "body"

EntityId(kind, e) ==
    IF kind = "UserMapper" THEN objects[e].user_id ELSE objects[e].message_id

EntityValue(kind, e) ==
    IF kind = "UserMapper" THEN objects[e].name ELSE objects[e].body

\* the row of the entity's id holds, in the named column, the entity's value
Reflected(store, kind, e) ==
    Row(store[TableOf(kind)], EntityId(kind, e))[ColumnOf(kind)] = EntityValue(kind, e)

\* position j of a dirty list is the last one that carries its row id
LastOfItsRow(kind, data, j) ==
    \A k \in (j + 1)..Len(data) : EntityId(kind, data[k]) # EntityId(kind, data[j])

\* C2 as stated: after any commit() call, for every kind with a registered
\* mapper, the store row of every entity registered dirty under that kind
\* holds the value the entity's mutation set.
C2_AsStated ==
    LastOp = "UnitOfWork.commit" =>
        \A i \in 1..Len(dirty) :
            DictHas(mappers, dirty[i].key) =>
                \A j \in 1..Len(dirty[i].val) :
                    Reflected(tx, dirty[i].key, dirty[i].val[j])

\* C2 as amended: after a commit() that returned without error, for every kind
\* of the dirty map, the store row of every registered entity that is not
\* followed in its dirty list by another entry for the same row holds that
\* entity's value, on the connection and in the committed store.
C2_CommitReflectsDirty ==
    Committed =>
        \A i \in 1..Len(dirty) :
            \A j \in 1..Len(dirty[i].val) :
                LastOfItsRow(dirty[i].key, dirty[i].val, j) =>
                    /\ Reflected(tx, dirty[i].key, dirty[i].val[j])
                    /\ Reflected(db, dirty[i].key, dirty[i].val[j])

\* a commit() returned with entities of both kinds registered dirty, two of
\* them for the same row
C2_Witness ==
    /\ Committed
    /\ Len(dirty) = 2
    /\ \E i \in 1..Len(dirty) : \E j \in 1..Len(dirty[i].val) :
           ~LastOfItsRow(dirty[i].key, dirty[i].val, j)

\* ---------------------------------------------------------------------- C3
\* d.get(kind, [])
ListOf(d, kind) == IF DictHas(d, kind) THEN DictGet(d, kind) ELSE <<>>

RECURSIVE PassedFrom(_, _, _, _)
PassedFrom(l, op, kind, i) ==
    IF i > Len(l)
    THEN <<>>
    ELSE IF l[i].op = op /\ l[i].kind = kind
         THEN <<l[i].obj>> \o PassedFrom(l, op, kind, i + 1)
         ELSE PassedFrom(l, op, kind, i + 1)

\* the entities passed to op under kind during the last operation, in call order
Passed(l, op, kind) == PassedFrom(l, op, kind, 1)

\* in trace l over heap objs, every call of the proxy mutator op is followed at
\* once by register_dirty(kind, wrapped raw entity) and then by the raw mutator
MutatorRegistersFirst(l, objs, op, field, kind, rawcls, rawop) ==
    \A i \in Calls(l, op) :
        LET raw == objs[l[i].obj][field]
        IN  /\ i + 2 <= Len(l)
            /\ objs[raw].cls = rawcls
            /\ l[i + 1] = Call("UnitOfWork.register_dirty", kind, raw, 0, "", <<>>)
            /\ l[i + 2] = Call(rawop, "", raw, 0, l[i].val, <<>>)

\* every call of the proxy accessor op is forwarded at once to the raw accessor
AccessorForwards(l, objs, op, field, rawop) ==
    \A i \in Calls(l, op) :
        /\ i + 1 <= Len(l)
        /\ l[i + 1] = Call(rawop, "", objs[l[i].obj][field], 0, "", <<>>)

ProxyAccessors ==
    {"MessageProxy.message_id", "MessageProxy.body", "UserProxy.user_id", "UserProxy.name"}

C3_Step ==
    /\ MutatorRegistersFirst(log', objects', "MessageProxy.edit", "message",
                             "MessageMapper", "Message", "Message.edit")
    /\ MutatorRegistersFirst(log', objects', "UserProxy.rename", "user",
                             "UserMapper", "User", "User.rename")
    /\ \A i \in Calls(log', "MessageProxy.edit") :
           objects'[objects[log'[i].obj].message].body = log'[i].val
    /\ \A i \in Calls(log', "UserProxy.rename") :
           objects'[objects[log'[i].obj].user].name = log'[i].val
    /\ \A kind \in Kinds :
           ListOf(dirty', kind) =
               ListOf(dirty, kind) \o Passed(log', "UnitOfWork.register_dirty", kind)
    /\ AccessorForwards(log', objects', "MessageProxy.message_id", "message", "Message.message_id")
    /\ AccessorForwards(log', objects', "MessageProxy.body", "message", "Message.body")
    /\ AccessorForwards(log', objects', "UserProxy.user_id", "user", "User.user_id")
    /\ AccessorForwards(log', objects', "UserProxy.name", "user", "User.name")
    /\ (log' # <<>> /\ log'[1].op \in ProxyAccessors) =>
           /\ new' = new
           /\ dirty' = dirty
           /\ objects' = objects

\* C3: every call of MessageProxy.edit / UserProxy.rename first appends the
\* wrapped raw entity (a Message / a User, not the proxy) to the dirty list of
\* its mapper-kind and only then runs the raw mutator, which sets the field;
\* every proxy accessor forwards to the raw accessor, and an accessor call
\* leaves new, dirty and the entities unchanged.
C3_MutatorsRegisterThenMutate == [][C3_Step]_vars

\* an edit_message call has reached MessageProxy.edit after a rename
C3_Witness ==
    /\ Calls(log, "MessageProxy.edit") # {}
    /\ DictHas(dirty, "UserMapper")
    /\ DictHas(dirty, "MessageMapper")

\* ---------------------------------------------------------------------- C4
\* the last operation was user.edit_message(id, body) with the id of an owned
\* message: the scan reached Message.edit
EditedOwned == LastOp = "UserProxy.edit_message" /\ Calls(log, "Message.edit") # {}

\* C4 as stated: edit_message through the user proxy with an owned id reaches
\* the raw Message.edit without any proxy interception and registers nothing.
C4_AsStated ==
    EditedOwned =>
        /\ Calls(log, "MessageProxy.edit") = {}
        /\ Calls(log, "UnitOfWork.register_dirty") = {}

\* C4 as amended: the user's message list holds the message proxies, so
\* edit_message through the user proxy reaches Message.edit only through
\* MessageProxy.edit, for every owned message with that id, after the raw
\* Message was appended to dirty[MessageMapper]; and after a commit() that
\* returned, every message row registered dirty holds the body of the last
\* entity registered for it.
C4_EditMessageIsIntercepted ==
    /\ LastOp = "UserProxy.edit_message" =>
          LET user == objects[log[1].obj].user
              data == ListOf(dirty, "MessageMapper")
          IN  /\ \A i \in Calls(log, "Message.edit") :
                    /\ i >= 3
                    /\ log[i - 2].op = "MessageProxy.edit"
                    /\ objects[log[i - 2].obj].message = log[i].obj
                    /\ log[i - 1] = Call("UnitOfWork.register_dirty", "MessageMapper",
                                         log[i].obj, 0, "", <<>>)
                    /\ \E j \in 1..Len(data) : data[j] = log[i].obj
              /\ \A k \in 1..Len(objects[user].messages) :
                    LET raw == objects[objects[user].messages[k]].message
                    IN  objects[raw].message_id = log[1].id =>
                            /\ \E i \in Calls(log, "Message.edit") : log[i].obj = raw
                            /\ objects[raw].body = log[1].val
    /\ Committed =>
          LET data == ListOf(dirty, "MessageMapper")
          IN  \A j \in 1..Len(data) :
                  LastOfItsRow("MessageMapper", data, j) =>
                      Reflected(db, "MessageMapper", data[j])

C4_Witness ==
    /\ EditedOwned
    /\ Len(ListOf(dirty, "MessageMapper")) >= 2

\* ---------------------------------------------------------------------- C5
UpdateAllOp(kind) ==
    IF kind = "UserMapper" THEN "UserMapper.update_all" ELSE "MessageMapper.update_all"

IsFlushCall(c) ==
    c.op \in {"UserMapper.update_all", "MessageMapper.update_all", "Connection.commit"}

\* the update_all and transaction-commit calls of the last operation, in order
FlushCalls == SelectSeq(log, IsFlushCall)

AllMappersRegistered == \A i \in 1..Len(dirty) : DictHas(mappers, dirty[i].key)

\* C5: a commit() that meets no missing mapper returns, and its calls to
\* update_all and to the transaction commit are exactly: one update_all per
\* kind of the dirty map, in the map's order, each with that kind's whole
\* list, on the mapper registered for the kind, and then one Connection.commit;
\* in no commit() call does Connection.commit precede an update_all.
C5_CommitDispatch ==
    LastOp = "UnitOfWork.commit" =>
        /\ AllMappersRegistered =>
              /\ err = "none"
              /\ FlushCalls =
                    [i \in 1..Len(dirty) |->
                        Call(UpdateAllOp(dirty[i].key), dirty[i].key, 0,
                             DictGet(mappers, dirty[i].key).n, "", dirty[i].val)]
                    \o << Call("Connection.commit", "", 0, 0, "", <<>>) >>
        /\ \A c \in Calls(log, "Connection.commit") :
              \A k \in Kinds : \A u \in Calls(log, UpdateAllOp(k)) : u < c

C5_Witness ==
    /\ Committed
    /\ Len(dirty) = 2
    /\ \E i \in 1..Len(dirty) : Len(dirty[i].val) >= 2

\* ---------------------------------------------------------------------- C6
C6_Step ==
    (/\ log' # <<>>
     /\ log'[1].op = "UnitOfWork.commit"
     /\ ~AllMappersRegistered)
    =>  /\ err' = "Exception: Mapper not found"
        /\ Calls(log', "Connection.commit") = {}
        /\ db' = db

\* C6: a commit() called while the dirty map holds a kind without a registered
\* mapper raises the mapper-not-found error, does not commit the transaction,
\* and leaves the committed store as it was.
C6_MissingMapperAborts == [][C6_Step]_vars

\* a commit() failed after it had flushed an earlier kind on the connection
C6_Witness ==
    /\ LastOp = "UnitOfWork.commit"
    /\ err = "Exception: Mapper not found"
    /\ Calls(log, "Connection.execute") # {}
    /\ tx # db

\* ---------------------------------------------------------------------- C7
KindOfTable(table) == IF table = "users" THEN "UserMapper" ELSE "MessageMapper"

C7_Step ==
    /\ \A kind \in Kinds :
          /\ ListOf(dirty', kind) =
                ListOf(dirty, kind) \o Passed(log', "UnitOfWork.register_dirty", kind)
          /\ ListOf(new', kind) =
                ListOf(new, kind) \o Passed(log', "UnitOfWork.register_new", kind)
    /\ \A i \in Calls(log', "Connection.execute") :
          log'[i].val \in {"name", "body"} =>
              log'[i].id = Len(ListOf(dirty', KindOfTable(log'[i].kind)))

\* C7: in every step, dirty[K] (resp. new[K]) grows by exactly the entities
\* passed to register_dirty (resp. register_new) under K during that step, in
\* call order, whether or not the list already holds them; and every batched
\* update (an execute that sets the name or the body column from parameter
\* sets) carries one parameter set per element of dirty[K].
C7_RegistrationNeverDeduplicates == [][C7_Step]_vars

\* an entity registered dirty twice, a batched update with two parameter sets,
\* and an entity registered new
C7_Witness ==
    /\ Committed
    /\ \E i \in 1..Len(dirty) :
           /\ \E j, k \in 1..Len(dirty[i].val) : j < k /\ dirty[i].val[j] = dirty[i].val[k]
           /\ \E c \in Calls(log, "Connection.execute") :
                  /\ log[c].kind = TableOf(dirty[i].key)
                  /\ log[c].id = Len(dirty[i].val)
    /\ new # <<>>

\* ---------------------------------------------------------------------- C8
EntityIdIn(objs, kind, e) ==
    IF kind = "UserMapper" THEN objs[e].user_id ELSE objs[e].message_id

EntityValueIn(objs, kind, e) ==
    IF kind = "UserMapper" THEN objs[e].name ELSE objs[e].body

Max(S) == CHOOSE x \in S : \A y \in S : y <= x

RawMutator(kind) == IF kind = "UserMapper" THEN "User.rename" ELSE "Message.edit"

\* the value carried by the last entry of list data for row r
LastFor(objs, kind, data, r) ==
    EntityValueIn(objs, kind,
        data[Max({j \in 1..Len(data) : EntityIdIn(objs, kind, data[j]) = r})])

\* a step whose trace holds raw mutator calls of the kind, at positions muts:
\* each mutated row occurs in the list afterwards and its last entry carries
\* the value of the row's latest mutation; the list only grows, by entries of
\* mutated rows, and the entries of the other rows carry the values they had
C8_MutationStep(kind, data, data2, muts) ==
    LET Id(e) == EntityIdIn(objects', kind, e)
        mutated == {Id(log'[i].obj) : i \in muts}
    IN  /\ \A r \in mutated :
              /\ \E j \in 1..Len(data2) : Id(data2[j]) = r
              /\ LastFor(objects', kind, data2, r) =
                    log'[Max({i \in muts : Id(log'[i].obj) = r})].val
        /\ Len(data) <= Len(data2)
        /\ \A j \in 1..Len(data2) :
              IF j <= Len(data)
              THEN /\ data2[j] = data[j]
                   /\ Id(data[j]) \notin mutated =>
                         EntityValueIn(objects', kind, data[j]) =
                             EntityValueIn(objects, kind, data[j])
              ELSE Id(data2[j]) \in mutated

\* any other step: the list and the values its entries carry stay as they are,
\* and a commit() that returns leaves each row's last value in the store
C8_OtherStep(kind, data, data2) ==
    /\ data2 = data
    /\ \A j \in 1..Len(data) :
          /\ EntityValueIn(objects', kind, data[j]) = EntityValueIn(objects, kind, data[j])
          /\ (log'[1].op = "UnitOfWork.commit" /\ err' = "none") =>
                LET r == EntityIdIn(objects, kind, data[j])
                    last == LastFor(objects, kind, data, r)
                IN  /\ Row(tx'[TableOf(kind)], r)[ColumnOf(kind)] = last
                    /\ Row(db'[TableOf(kind)], r)[ColumnOf(kind)] = last

C8_Step ==
    \A kind \in Kinds :
        IF log'[1].op \in {"UserProxy.rename", "UserProxy.edit_message"}
           /\ Calls(log', RawMutator(kind)) # {}
        THEN C8_MutationStep(kind, ListOf(dirty, kind), ListOf(dirty', kind),
                             Calls(log', RawMutator(kind)))
        ELSE C8_OtherStep(kind, ListOf(dirty, kind), ListOf(dirty', kind))

\* C8: for every row id that occurs in dirty[K], the last occurrence always
\* carries the value set by the most recent mutation of any entity of that row
\* (a mutation puts its value there, every other step keeps it), and a
\* commit() that returns leaves exactly that value in the store row.
C8_LastWriteWins == [][C8_Step]_vars

\* a commit() returned with two distinct entity objects of one row in dirty[K],
\* carrying different values
C8_Witness ==
    /\ Committed
    /\ \E i \in 1..Len(dirty) : \E j, k \in 1..Len(dirty[i].val) :
           /\ j < k
           /\ dirty[i].val[j] # dirty[i].val[k]
           /\ EntityId(dirty[i].key, dirty[i].val[j]) = EntityId(dirty[i].key, dirty[i].val[k])
           /\ EntityValue(dirty[i].key, dirty[i].val[j]) # EntityValue(dirty[i].key, dirty[i].val[k])

\* ---------------------------------------------------------------------- C9
\* the message rows of a user, in table order
OwnedRows(store, user_id) ==
    LET Owned(m) == m.user_id = user_id IN SelectSeq(store.messages, Owned)

UserExists(store, user_id) == \E i \in 1..Len(store.users) : store.users[i].id = user_id

\* the last operation was a with_id whose joined query yields no row
LoadedNoRows ==
    /\ LastOp = "UserRepository.with_id"
    /\ (~UserExists(tx, log[1].id) \/ OwnedRows(tx, log[1].id) = <<>>)

\* C9: with_id on a user id whose joined query yields no row (a user without
\* messages, or no such user) fails with NotFoundError and returns no aggregate.
C9_AsStated ==
    LoadedNoRows =>
        /\ err = "NotFoundError"
        /\ ret = RetNone

\* --------------------------------------------------------------------- C10
C10_Step ==
    (/\ log' # <<>>
     /\ log'[1].op = "UserRepository.with_id"
     /\ UserExists(tx, log'[1].id)
     /\ OwnedRows(tx, log'[1].id) # <<>>)
    =>  LET user_id == log'[1].id
            rows == OwnedRows(tx, user_id)
            n == Len(rows)
            base == Len(objects)
            user_proxy == ret'.int
            user == objects'[user_proxy].user
            messages == objects'[user].messages
        IN  /\ err' = "none"
            /\ ret'.kind = "ref"
            /\ Len(objects') = base + 2 * n + 2
            /\ SubSeq(objects', 1, base) = objects
            /\ user_proxy > base /\ objects'[user_proxy].cls = "UserProxy"
            /\ user > base /\ objects'[user].cls = "User"
            /\ objects'[user].user_id = user_id
            /\ objects'[user].name = Row(tx.users, user_id).name
            /\ Len(messages) = n
            /\ \A i \in 1..n :
                  LET raw == objects'[messages[i]].message
                  IN  /\ messages[i] > base /\ objects'[messages[i]].cls = "MessageProxy"
                      /\ raw > base /\ objects'[raw].cls = "Message"
                      /\ objects'[raw].message_id = rows[i].id
                      /\ objects'[raw].body = rows[i].body
                      /\ \A k \in 1..n : k # i =>
                            /\ messages[k] # messages[i]
                            /\ objects'[messages[k]].message # raw
            /\ new' = new
            /\ dirty' = dirty
            /\ tx' = tx
            /\ db' = db

\* C10: with_id for a user that owns n >= 1 messages returns a new UserProxy
\* on a new User with that user's id and name, whose message list is n new
\* MessageProxy objects, one per message row in query order, each on its own
\* new Message with the row's id and body; entities already loaded, new, dirty
\* and the store are unchanged.
C10_LoadBuildsAggregate == [][C10_Step]_vars

\* user 1 has been loaded a second time, after a commit changed its rows
C10_Witness ==
    /\ LastOp = "UserRepository.with_id"
    /\ err = "none"
    /\ Loaded = 2
    /\ Len(objects[objects[ret.int].user].messages) = 3
    /\ objects[objects[ret.int].user].name # "bob"

\* --------------------------------------------------------------------- C11
Min(S) == CHOOSE x \in S : \A y \in S : x <= y

\* the number of leading kinds of the dirty map that have a registered mapper:
\* the kinds a commit() reaches before it returns or raises
Flushed ==
    LET missing == {i \in 1..Len(dirty) : ~DictHas(mappers, dirty[i].key)}
    IN  IF missing = {} THEN Len(dirty) ELSE Min(missing) - 1

IsUpdateAll(c) == c.op \in {"UserMapper.update_all", "MessageMapper.update_all"}

\* the rows of kind's table after the dirty list data was flushed into rows:
\* a row whose id occurs in data takes the value of its last entry
FlushedRows(rows, kind, data) ==
    [i \in 1..Len(rows) |->
        IF \E j \in 1..Len(data) : EntityId(kind, data[j]) = rows[i].id
        THEN [rows[i] EXCEPT ![ColumnOf(kind)] = LastFor(objects, kind, data, rows[i].id)]
        ELSE rows[i]]

\* position of kind in the dirty map, 0 when absent
DirtyIndex(kind) == IF DictHas(dirty, kind) THEN DictIndex(dirty, kind) ELSE 0

IsCommitStep == log' # <<>> /\ log'[1].op = "UnitOfWork.commit"

C11_AsStatedStep ==
    IsCommitStep =>
        /\ new' = new
        /\ dirty' = dirty
        /\ \A i \in 1..Len(dirty) :
              \E c \in Calls(log', UpdateAllOp(dirty[i].key)) : log'[c].data = dirty[i].val

\* C11 as stated: every commit() leaves new and dirty unchanged and issues an
\* update for every entity registered dirty.
C11_AsStated == [][C11_AsStatedStep]_vars

C11_Step ==
    IsCommitStep =>
        /\ new' = new
        /\ dirty' = dirty
        /\ objects' = objects
        /\ SelectSeq(log', IsUpdateAll) =
              [i \in 1..Flushed |->
                  Call(UpdateAllOp(dirty[i].key), dirty[i].key, 0,
                       DictGet(mappers, dirty[i].key).n, "", dirty[i].val)]
        /\ Cardinality(Calls(log', "Connection.execute")) = Flushed
        /\ \A kind \in Kinds :
              tx'[TableOf(kind)] =
                  IF DirtyIndex(kind) \in 1..Flushed
                  THEN FlushedRows(tx[TableOf(kind)], kind, ListOf(dirty, kind))
                  ELSE tx[TableOf(kind)]
        /\ (err' = "none") <=> (Flushed = Len(dirty))

\* C11 as amended: every commit(), returning or raising, leaves new, dirty and
\* the entities unchanged; it issues one update_all with the whole dirty list
\* for each kind that precedes the first kind without a mapper (for every kind
\* when it returns), so every entity ever registered dirty under those kinds
\* is updated again; and the store after it is determined by the store before
\* and those dirty lists alone, so the new map causes no write.
C11_CommitKeepsMaps == [][C11_Step]_vars

\* a commit() returned with a dirty entity flushed and an entity registered
\* new, and not dirty, whose value differs from the value in its store row
C11_Witness ==
    /\ Committed
    /\ dirty # <<>>
    /\ \E i \in 1..Len(new) : \E j \in 1..Len(new[i].val) :
           /\ \A k \in 1..Len(ListOf(dirty, new[i].key)) :
                  ListOf(dirty, new[i].key)[k] # new[i].val[j]
           /\ ~Reflected(tx, new[i].key, new[i].val[j])

\* --------------------------------------------------------------------- C12
C12_Step ==
    /\ \A i, j \in 1..Len(mappers') : mappers'[i].key = mappers'[j].key => i = j
    /\ log'[1].op = "Registry.register_mapper" =>
          LET kind == log'[1].kind
              mapper == [cls |-> log'[1].val, n |-> log'[1].id]
          IN  /\ err' = "none"
              /\ DictHas(mappers', kind) /\ DictGet(mappers', kind) = mapper
              /\ \A k \in Kinds \ {kind} :
                    /\ DictHas(mappers', k) <=> DictHas(mappers, k)
                    /\ DictHas(mappers, k) => DictGet(mappers', k) = DictGet(mappers, k)
    /\ log'[1].op = "Registry.get" =>
          /\ mappers' = mappers
          /\ IF DictHas(mappers, log'[1].kind)
             THEN /\ err' = "none"
                  /\ ret' = RetMapper(DictGet(mappers, log'[1].kind))
             ELSE /\ err' = "Exception: Mapper not found"
                  /\ ret' = RetNone
    /\ log'[1].op # "Registry.register_mapper" => mappers' = mappers

\* C12: the registry holds at most one mapper per kind; register_mapper(K, m)
\* makes m the mapper of K, in place of any earlier one, and leaves the other
\* kinds as they were; no other operation changes the registry; get(K) returns
\* the mapper the registry holds for K, which is therefore the one of the most
\* recent registration of K, and raises the mapper-not-found error exactly
\* when K has no registration.
C12_LastRegistrationWins == [][C12_Step]_vars

\* get(K) returned an instance other than the first, with both kinds registered
C12_Witness ==
    /\ LastOp = "Registry.get"
    /\ err = "none"
    /\ ret.kind = "mapper" /\ ret.int = 2
    /\ Len(mappers) = 2

\* --------------------------------------------------------------------- C13
\* the raw messages behind the message list of the user behind proxy p
OwnedMessages(objs, p) ==
    {objs[objs[objs[p].user].messages[k]].message :
        k \in 1..Len(objs[objs[p].user].messages)}

C13_Step ==
    (/\ log'[1].op = "UserProxy.edit_message"
     /\ \A raw \in OwnedMessages(objects, log'[1].obj) :
            objects[raw].message_id # log'[1].id)
    =>  /\ err' = "none"
        /\ ret' = RetNone
        /\ objects' = objects
        /\ new' = new
        /\ dirty' = dirty
        /\ tx' = tx /\ db' = db
        /\ log'[2] = Call("User.edit_message", "", objects[log'[1].obj].user,
                          log'[1].id, log'[1].val, <<>>)
        /\ Calls(log', "Message.edit") = {}
        /\ Calls(log', "UnitOfWork.register_dirty") = {}
        /\ Calls(log', "UnitOfWork.register_new") = {}

\* C13: edit_message(id, body) on the user proxy, with an id that none of the
\* user's messages has, is delegated to User.edit_message, returns None
\* without error, and leaves every entity, the new and dirty maps and the
\* store unchanged; no mutator and no registration is called.
C13_UnknownIdIsNoOp == [][C13_Step]_vars

\* an edit_message with an unknown id has scanned three messages while an
\* entity was registered dirty
C13_Witness ==
    /\ LastOp = "UserProxy.edit_message"
    /\ Calls(log, "Message.edit") = {}
    /\ Cardinality(Calls(log, "Message.message_id")) = 3
    /\ dirty # <<>>

\* --------------------------------------------------------------------- C14
\* the objects of the aggregate behind user proxy p: the proxy, its User, the
\* message proxies of the user's list and their Messages
Aggregate(objs, p) ==
    {p, objs[p].user}
    \cup {objs[objs[p].user].messages[k] : k \in 1..Len(objs[objs[p].user].messages)}
    \cup OwnedMessages(objs, p)

UserProxies(objs) == {a \in 1..Len(objs) : objs[a].cls = "UserProxy"}

C14_Step ==
    /\ (log'[1].op = "UserRepository.with_id" /\ err' = "none") =>
          /\ ret'.kind = "ref" /\ objects'[ret'.int].cls = "UserProxy"
          /\ Aggregate(objects', ret'.int) \cap (1..Len(objects)) = {}
          /\ SubSeq(objects', 1, Len(objects)) = objects
    /\ \A p, q \in UserProxies(objects') :
          p # q => Aggregate(objects', p) \cap Aggregate(objects', q) = {}
    /\ log'[1].op \in {"UserProxy.rename", "UserProxy.edit_message"} =>
          LET own == Aggregate(objects, log'[1].obj)
          IN  /\ \A a \in (1..Len(objects)) \ own : objects'[a] = objects[a]
              /\ \A kind \in Kinds :
                    LET added == Passed(log', "UnitOfWork.register_dirty", kind)
                    IN  /\ ListOf(dirty', kind) = ListOf(dirty, kind) \o added
                        /\ \A j \in 1..Len(added) : added[j] \in own

\* C14: every successful with_id returns an aggregate made of new objects
\* only, also for a user id loaded before, so two loaded aggregates never
\* share a User, a Message or a proxy; rename and edit_message through one
\* aggregate change no object outside it, so the change is not visible
\* through another aggregate of the same rows, and the entries they append to
\* the dirty lists are that aggregate's own entities.
C14_NoIdentityMap == [][C14_Step]_vars

\* user 1 was loaded twice and message 1 edited through both aggregates: the
\* two copies carry different bodies and are two entries of the dirty list
C14_Witness ==
    LET data == ListOf(dirty, "MessageMapper")
    IN  /\ Loaded = 2
        /\ Len(data) = 2
        /\ data[1] # data[2]
        /\ objects[data[1]].message_id = objects[data[2]].message_id
        /\ objects[data[1]].body # objects[data[2]].body
        /\ \E p, q \in OfClass("UserProxy") :
               /\ p # q
               /\ objects[objects[p].user].user_id = objects[objects[q].user].user_id
               /\ data[1] \in Aggregate(objects, p)
               /\ data[2] \in Aggregate(objects, q)

\* --------------------------------------------------------------------- C15
\* the kinds registered dirty for the first time in the step
FirstRegistered ==
    {k \in Kinds : Passed(log', "UnitOfWork.register_dirty", k) # <<>> /\ ~DictHas(dirty, k)}

IsRegistryGet(c) == c.op = "Registry.get"

C15_Step ==
    /\ IF FirstRegistered = {}
       THEN DictKeys(dirty') = DictKeys(dirty)
       ELSE \E k \in FirstRegistered :
                /\ FirstRegistered = {k}
                /\ DictKeys(dirty') = Append(DictKeys(dirty), k)
    /\ (IsCommitStep /\ err' # "none") =>
          /\ Flushed < Len(dirty)
          /\ ~DictHas(mappers, dirty[Flushed + 1].key)
          /\ err' = "Exception: Mapper not found"
          /\ [i \in 1..Len(SelectSeq(log', IsRegistryGet)) |->
                 SelectSeq(log', IsRegistryGet)[i].kind]
                = SubSeq(DictKeys(dirty), 1, Flushed + 1)
          /\ [i \in 1..Len(SelectSeq(log', IsUpdateAll)) |->
                 SelectSeq(log', IsUpdateAll)[i].kind]
                = SubSeq(DictKeys(dirty), 1, Flushed)
          /\ \A i \in 1..Len(dirty) :
                LET table == TableOf(dirty[i].key)
                IN  tx'[table] = IF i <= Flushed
                                 THEN FlushedRows(tx[table], dirty[i].key, dirty[i].val)
                                 ELSE tx[table]
          /\ db' = db

\* C15: the keys of the dirty map stand in the order in which each kind was
\* first registered dirty (a step that registers a kind for the first time
\* appends it, no other step changes the keys); a commit() that raises has
\* looked up the kinds up to and including the first one without a mapper, in
\* that order, has run update_all on the open connection for exactly the
\* kinds before it, and has left the tables of the later kinds and the
\* committed store as they were.
C15_PartialFlush == [][C15_Step]_vars

\* a commit() raised on the second kind of the dirty map after it had written
\* the first kind's change on the connection: the first kind's entities are
\* reflected there, an entity of the second kind is not
C15_Witness ==
    /\ LastOp = "UnitOfWork.commit"
    /\ err # "none"
    /\ Len(dirty) = 2
    /\ Cardinality(Calls(log, "Connection.execute")) = 1
    /\ \A j \in 1..Len(dirty[1].val) : Reflected(tx, dirty[1].key, dirty[1].val[j])
    /\ \E j \in 1..Len(dirty[1].val) : ~Reflected(db, dirty[1].key, dirty[1].val[j])
    /\ \E j \in 1..Len(dirty[2].val) : ~Reflected(tx, dirty[2].key, dirty[2].val[j])

\* --------------------------------------------------------------------- C16
\* the raw Messages with the given id behind the message list of the user
\* behind proxy p, in list order
Matching(objs, p, id) ==
    LET Match(mp) == objs[objs[mp].message].message_id = id
        hits == SelectSeq(objs[objs[p].user].messages, Match)
    IN  [k \in 1..Len(hits) |-> objs[hits[k]].message]

C16_Step ==
    /\ log'[1].op = "UserProxy.edit_message" =>
          /\ ListOf(dirty', "MessageMapper") =
                ListOf(dirty, "MessageMapper")
                    \o Matching(objects, log'[1].obj, log'[1].id)
          /\ \A j \in 1..Len(Matching(objects, log'[1].obj, log'[1].id)) :
                objects[Matching(objects, log'[1].obj, log'[1].id)[j]].cls = "Message"
          /\ ListOf(dirty', "UserMapper") = ListOf(dirty, "UserMapper")
          /\ DictHas(dirty', "UserMapper") <=> DictHas(dirty, "UserMapper")
          /\ new' = new
    /\ ListOf(dirty', "UserMapper") # ListOf(dirty, "UserMapper") =>
          /\ log'[1].op = "UserProxy.rename"
          /\ ListOf(dirty', "UserMapper") =
                Append(ListOf(dirty, "UserMapper"), objects[log'[1].obj].user)
    /\ IsCommitStep =>
          /\ Calls(log', "UserMapper.update_all") # {} => DictHas(dirty, "UserMapper")
          /\ \A i \in 1..Len(tx.users) :
                tx'.users[i] # tx.users[i] =>
                    \E j \in 1..Len(ListOf(dirty, "UserMapper")) :
                        objects[ListOf(dirty, "UserMapper")[j]].user_id = tx.users[i].id

\* C16: edit_message(id, body) on a loaded user proxy appends to
\* dirty[MessageMapper] one entry, the raw Message, per message of the user's
\* list with that id, in list order, and leaves dirty[UserMapper] and new as
\* they were; dirty[UserMapper] grows only in a rename step, by the renamed
\* User; and a commit() calls UserMapper.update_all only when UserMapper is in
\* the dirty map and changes a user row only if a User with that id is in
\* dirty[UserMapper].
C16_EditMessageRegistersMessagesOnly == [][C16_Step]_vars

\* a commit() returned after edit_message calls and no rename: the message
\* rows were written, no user row was
C16_Witness ==
    /\ Committed
    /\ Len(ListOf(dirty, "MessageMapper")) >= 2
    /\ ~DictHas(dirty, "UserMapper")
    /\ DictHas(mappers, "UserMapper")
    /\ tx.users = users_seed
    /\ tx.messages # messages_seed

\* --------------------------------------------------------------------- C17
\* the mapper-kind of an entity class
KindOfClass(cls) == IF cls = "User" THEN "UserMapper" ELSE "MessageMapper"

InList(data, e) == \E j \in 1..Len(data) : data[j] = e

C17_Step ==
    /\ \A a \in 1..Len(objects) :
          (/\ objects[a].cls \in {"Message", "User"}
           /\ objects'[a] # objects[a])
          =>  /\ InList(ListOf(dirty', KindOfClass(objects[a].cls)), a)
              /\ objects'[a].cls = objects[a].cls
    /\ \A kind \in Kinds :
          /\ \A j \in 1..Len(ListOf(dirty, kind)) :
                InList(ListOf(dirty', kind), ListOf(dirty, kind)[j])
          /\ \A j \in 1..Len(ListOf(dirty', kind)) :
                KindOfClass(objects'[ListOf(dirty', kind)[j]].cls) = kind
                /\ objects'[ListOf(dirty', kind)[j]].cls \in {"Message", "User"}

\* C17: under loads, rename, edit_message and commit, a step that changes a
\* Message or a User leaves it in the dirty list of its own kind (Message
\* under MessageMapper, User under UserMapper), and no step removes an entity
\* from a dirty list; so in every reachable state every entity changed since
\* it was loaded occurs in the dirty list of its kind.
C17_DirtyTrackingComplete == [][C17_Step]_vars

\* a commit has changed the store, two aggregates are loaded, and a Message
\* and a User carry values set by a mutation and stand in the dirty lists
C17_Witness ==
    /\ db # [users |-> users_seed, messages |-> messages_seed]
    /\ Loaded = 2
    /\ \E a \in OfClass("Message") :
           objects[a].body \in Bodies /\ InList(ListOf(dirty, "MessageMapper"), a)
    /\ \E a \in OfClass("User") :
           objects[a].name \in Names /\ InList(ListOf(dirty, "UserMapper"), a)

\* --------------------------------------------------------------------- C18
\* the ids of the entities of the kind's dirty list
DirtyIds(kind) ==
    {EntityId(kind, ListOf(dirty, kind)[j]) : j \in 1..Len(ListOf(dirty, kind))}

\* table rows2 differs from rows at most in the kind's column of rows whose
\* id is the id of a dirty entity of the kind
OnlyDirtyColumn(rows, rows2, kind) ==
    /\ Len(rows2) = Len(rows)
    /\ \A i \in 1..Len(rows) :
          /\ rows2[i] = [rows[i] EXCEPT ![ColumnOf(kind)] = rows2[i][ColumnOf(kind)]]
          /\ rows2[i] # rows[i] => rows[i].id \in DirtyIds(kind)

C18_Step ==
    /\ ~IsCommitStep => (tx' = tx /\ db' = db)
    /\ \A kind \in Kinds :
          /\ OnlyDirtyColumn(tx[TableOf(kind)], tx'[TableOf(kind)], kind)
          /\ OnlyDirtyColumn(db[TableOf(kind)], db'[TableOf(kind)], kind)
    /\ [i \in 1..Len(tx'.users) |-> tx'.users[i].id]
          = [i \in 1..Len(users_seed) |-> users_seed[i].id]
    /\ [i \in 1..Len(tx'.messages) |-> <<tx'.messages[i].id, tx'.messages[i].user_id>>]
          = [i \in 1..Len(messages_seed) |->
                <<messages_seed[i].id, messages_seed[i].user_id>>]

\* C18: only a commit() changes the store, on the connection or committed,
\* and it changes at most the body of message rows whose id is the id of an
\* entity in dirty[MessageMapper] and the name of user rows whose id is the
\* id of an entity in dirty[UserMapper]; the other rows, the id and user_id
\* columns and the number of rows of both tables stay as seeded.
C18_CommitWritesDirtyColumnsOnly == [][C18_Step]_vars

\* a commit() returned that changed message 1 and user 1 and left message 3,
\* of the same user and loaded with it, as seeded
C18_Witness ==
    /\ Committed
    /\ Row(db.messages, 1).body # "body 1"
    /\ Row(db.messages, 3).body = "body 3"
    /\ Row(db.users, 1).name # "bob"
    /\ Len(ListOf(dirty, "MessageMapper")) >= 2

====
